---- MODULE Spec2Model ----
(***************************************************************************)
(* data_diff/format.py: jsonify and its helpers.                           *)
(*                                                                         *)
(* Field and column names are sequences of characters, so that Python's    *)
(* str.startswith, str.endswith and str.replace are computed on the text   *)
(* of the name.  A Python dict that is iterated is a sequence of           *)
(* <<key, value>> pairs in insertion order; a dict that is only looked up  *)
(* or returned is a function.  Optional[X] is a sequence of length at most *)
(* one: None is <<>>, a value x is <<x>>.                                  *)
(***************************************************************************)
EXTENDS Integers, Sequences, FiniteSets, TLC

(* ------------------------------ bounds -------------------------------- *)

\* longest diff_info.diff row sequence explored
MaxRows == 2

(* ------------------------------ text ---------------------------------- *)

SUFFIX_A == <<"_", "a">>
SUFFIX_B == <<"_", "b">>
IS_DIFF == <<"i", "s", "_", "d", "i", "f", "f", "_">>
IS_EXCLUSIVE_A == <<"i", "s", "_", "e", "x", "c", "l", "u", "s", "i", "v", "e", "_", "a">>
IS_EXCLUSIVE_B == <<"i", "s", "_", "e", "x", "c", "l", "u", "s", "i", "v", "e", "_", "b">>

\* str.startswith(prefix)
startswith(s, prefix) ==
    /\ Len(s) >= Len(prefix)
    /\ SubSeq(s, 1, Len(prefix)) = prefix

\* str.endswith(suffix)
endswith(s, suffix) ==
    /\ Len(s) >= Len(suffix)
    /\ SubSeq(s, Len(s) - Len(suffix) + 1, Len(s)) = suffix

\* str.replace(old, ''): every non-overlapping occurrence of old, scanning
\* from the left, is removed.
RECURSIVE replace(_, _)
replace(s, old) ==
    IF Len(s) < Len(old) THEN s
    ELSE IF SubSeq(s, 1, Len(old)) = old
         THEN replace(SubSeq(s, Len(old) + 1, Len(s)), old)
         ELSE <<s[1]>> \o replace(Tail(s), old)

\* bool(value) / truthiness of a flag the engine emits as 0 or 1
bool(value) == value # 0

\* x in list
In(x, list) == \E i \in 1..Len(list) : list[i] = x

(* ------------------------------ dicts --------------------------------- *)

HasKey(d, k) == \E i \in 1..Len(d) : d[i][1] = k

\* d[k]; only used where HasKey(d, k)
Get(d, k) == d[CHOOSE i \in 1..Len(d) : d[i][1] = k][2]

\* d[k] = v on an insertion-ordered dict: an existing key keeps its place
DictSet(d, k, v) ==
    IF HasKey(d, k)
    THEN [i \in 1..Len(d) |-> IF d[i][1] = k THEN <<k, v>> ELSE d[i]]
    ELSE Append(d, <<k, v>>)

\* dict(zip(keys, values)): zip stops at the shorter of the two
RECURSIVE DictZipFrom(_, _, _, _)
DictZipFrom(keys, values, i, acc) ==
    IF i > Len(keys) \/ i > Len(values) THEN acc
    ELSE DictZipFrom(keys, values, i + 1, DictSet(acc, keys[i], values[i]))

DictZip(keys, values) == DictZipFrom(keys, values, 1, <<>>)

\* m[k][f] = v on columns = collections.defaultdict(dict)
SetField(m, k, f, v) ==
    LET old == IF k \in DOMAIN m THEN m[k] ELSE <<>>
        new == [g \in (DOMAIN old) \cup {f} |-> IF g = f THEN v ELSE old[g]]
    IN  [c \in (DOMAIN m) \cup {k} |-> IF c = k THEN new ELSE m[c]]

(* --------------------------- dataclasses ------------------------------ *)

\* @dataclass JsonExclusiveRowValue: both fields are required
JsonExclusiveRowValue == {"isPK", "value"}

\* @dataclass JsonDiffRowValue: all four fields are required
JsonDiffRowValue == {"table1", "table2", "isDiff", "isPK"}

\* Class(**data): a TypeError unless data names exactly the required fields
Constructs(class, data) == DOMAIN data = class

(* --------------------------- _group_rows ------------------------------ *)

\* GroupRow with the two tests of lines 176 and 179 in the other order
GroupRowTable2First(acc, schema, row) ==
    LET row_w_schema == DictZip(schema, row)
    IN  IF acc.error # "" THEN acc
        ELSE IF ~HasKey(row_w_schema, IS_EXCLUSIVE_A) \/ ~HasKey(row_w_schema, IS_EXCLUSIVE_B)
        THEN [acc EXCEPT !.error = "KeyError"]
        ELSE IF bool(Get(row_w_schema, IS_EXCLUSIVE_B))
        THEN [acc EXCEPT !.t2_exclusive_rows = Append(@, row_w_schema)]
        ELSE IF bool(Get(row_w_schema, IS_EXCLUSIVE_A))
        THEN [acc EXCEPT !.t1_exclusive_rows = Append(@, row_w_schema)]
        ELSE [acc EXCEPT !.diff_rows = Append(@, row_w_schema)]

\* lines 172-183: one pass of the loop body over a row, on the three lists
GroupRow(acc, schema, row) ==
    LET row_w_schema == DictZip(schema, row)
    IN  IF acc.error # "" THEN acc
        ELSE IF ~HasKey(row_w_schema, IS_EXCLUSIVE_A) \/ ~HasKey(row_w_schema, IS_EXCLUSIVE_B)
        THEN [acc EXCEPT !.error = "KeyError"]
        ELSE LET is_t1_exclusive == Get(row_w_schema, IS_EXCLUSIVE_A)
                 is_t2_exclusive == Get(row_w_schema, IS_EXCLUSIVE_B)
             IN  IF bool(is_t1_exclusive)
                 THEN [acc EXCEPT !.t1_exclusive_rows = Append(@, row_w_schema)]
                 ELSE IF bool(is_t2_exclusive)
                 THEN [acc EXCEPT !.t2_exclusive_rows = Append(@, row_w_schema)]
                 ELSE [acc EXCEPT !.diff_rows = Append(@, row_w_schema)]

RECURSIVE GroupRowsFrom(_, _, _, _)
GroupRowsFrom(rows, schema, i, acc) ==
    IF i > Len(rows) THEN acc
    ELSE GroupRowsFrom(rows, schema, i + 1, GroupRow(acc, schema, rows[i]))

\* lines 165-185
_group_rows(rows, schema) ==
    GroupRowsFrom(rows, schema, 1,
        [error |-> "", t1_exclusive_rows |-> <<>>, t2_exclusive_rows |-> <<>>,
         diff_rows |-> <<>>])

(* --------------------------- _jsonify_diff ---------------------------- *)

\* lines 191-206: the loop body for one (field, value) of the row
DiffField(columns, field, value, key_columns) ==
    IF field \in {IS_EXCLUSIVE_A, IS_EXCLUSIVE_B} THEN columns
    ELSE IF startswith(field, IS_DIFF)
    THEN LET column_name == replace(field, IS_DIFF)
         IN  SetField(columns, column_name, "isDiff", bool(value))
    ELSE IF endswith(field, SUFFIX_A)
    THEN LET column_name == replace(field, SUFFIX_A)
         IN  SetField(SetField(columns, column_name, "table1", value),
                      column_name, "isPK", In(column_name, key_columns))
    ELSE IF endswith(field, SUFFIX_B)
    THEN LET column_name == replace(field, SUFFIX_B)
         IN  SetField(SetField(columns, column_name, "table2", value),
                      column_name, "isPK", In(column_name, key_columns))
    ELSE columns

RECURSIVE DiffFieldsFrom(_, _, _, _)
DiffFieldsFrom(row, key_columns, i, columns) ==
    IF i > Len(row) THEN columns
    ELSE DiffFieldsFrom(row, key_columns, i + 1,
             DiffField(columns, row[i][1], row[i][2], key_columns))

\* lines 188-211: the mapping, or the TypeError of a JsonDiffRowValue(**data)
\* that lacks a field
_jsonify_diff(row, key_columns) ==
    LET columns == DiffFieldsFrom(row, key_columns, 1, <<>>)
    IN  IF \A column \in DOMAIN columns : Constructs(JsonDiffRowValue, columns[column])
        THEN [error |-> "", value |-> columns]
        ELSE [error |-> "TypeError", value |-> <<>>]

(* ------------------------- _jsonify_exclusive ------------------------- *)

\* lines 217-228: the loop body for one (field, value) of the row
ExclusiveField(columns, row, field, value, key_columns) ==
    IF field \in {IS_EXCLUSIVE_A, IS_EXCLUSIVE_B} THEN columns
    ELSE IF startswith(field, IS_DIFF) THEN columns
    ELSE IF endswith(field, SUFFIX_B) /\ bool(Get(row, IS_EXCLUSIVE_B))
    THEN LET column_name == replace(field, SUFFIX_B)
         IN  SetField(SetField(columns, column_name, "isPK", In(column_name, key_columns)),
                      column_name, "value", value)
    ELSE IF endswith(field, SUFFIX_A) /\ bool(Get(row, IS_EXCLUSIVE_A))
    THEN LET column_name == replace(field, SUFFIX_A)
         IN  SetField(SetField(columns, column_name, "isPK", In(column_name, key_columns)),
                      column_name, "value", value)
    ELSE columns

RECURSIVE ExclusiveFieldsFrom(_, _, _, _)
ExclusiveFieldsFrom(row, key_columns, i, columns) ==
    IF i > Len(row) THEN columns
    ELSE ExclusiveFieldsFrom(row, key_columns, i + 1,
             ExclusiveField(columns, row, row[i][1], row[i][2], key_columns))

\* lines 214-232
_jsonify_exclusive(row, key_columns) ==
    LET columns == ExclusiveFieldsFrom(row, key_columns, 1, <<>>)
    IN  IF \A column \in DOMAIN columns : Constructs(JsonExclusiveRowValue, columns[column])
        THEN [error |-> "", value |-> columns]
        ELSE [error |-> "TypeError", value |-> <<>>]

(* ----------------------------- projectors ----------------------------- *)

\* the keys _jsonify_diff_summary subscripts, lines 239-250
STATS_KEYS == {"rows_A", "rows_B", "exclusive_A", "exclusive_B", "updated",
               "unchanged", "stats"}

\* lines 235-252: the summary, or the KeyError of a subscript
_jsonify_diff_summary(stats_dict) ==
    IF STATS_KEYS \subseteq DOMAIN stats_dict /\ "diff_counts" \in DOMAIN stats_dict["stats"]
    THEN [error |-> "",
          value |-> [rows |-> [total |-> [table1 |-> stats_dict["rows_A"],
                                          table2 |-> stats_dict["rows_B"]],
                               exclusive |-> [table1 |-> stats_dict["exclusive_A"],
                                              table2 |-> stats_dict["exclusive_B"]],
                               updated |-> stats_dict["updated"],
                               unchanged |-> stats_dict["unchanged"]],
                     stats |-> [diffCounts |-> stats_dict["stats"]["diff_counts"]]]]
    ELSE [error |-> "KeyError", value |-> <<>>]

\* dict.get(key, default)
get(d, key, default) == IF key \in DOMAIN d THEN d[key] ELSE default

\* lines 255-262
_jsonify_columns_diff(columns_diff) ==
    [exclusive |-> [table2 |-> get(columns_diff, "added", <<>>),
                    table1 |-> get(columns_diff, "removed", <<>>)],
     typeChanged |-> get(columns_diff, "changed", <<>>)]

\* truthiness of an Optional[Dict]: None and the empty dict are falsy
DictTruthy(opt) == opt # <<>> /\ DOMAIN opt[1] # {}

\* lines 53-57: with_columns and (with_columns['added'] or
\* with_columns['removed'] or with_columns['changed']), left to right with
\* short circuit; a subscript of an absent key is a KeyError
ColumnsDiffer(with_columns) ==
    IF ~DictTruthy(with_columns) THEN [error |-> "", value |-> FALSE]
    ELSE LET d == with_columns[1]
         IN  IF "added" \notin DOMAIN d THEN [error |-> "KeyError", value |-> FALSE]
             ELSE IF d["added"] # <<>> THEN [error |-> "", value |-> TRUE]
             ELSE IF "removed" \notin DOMAIN d THEN [error |-> "KeyError", value |-> FALSE]
             ELSE IF d["removed"] # <<>> THEN [error |-> "", value |-> TRUE]
             ELSE IF "changed" \notin DOMAIN d THEN [error |-> "KeyError", value |-> FALSE]
             ELSE [error |-> "", value |-> d["changed"] # <<>>]

\* is_different without the test of diff_rows on line 52
is_different_without_diff_rows(t1_rows, t2_rows, d_rows, with_columns) ==
    IF t1_rows # <<>> THEN [error |-> "", value |-> TRUE]
    ELSE IF t2_rows # <<>> THEN [error |-> "", value |-> TRUE]
    ELSE ColumnsDiffer(with_columns)

\* lines 49-58
is_different(t1_rows, t2_rows, d_rows, with_columns) ==
    IF t1_rows # <<>> THEN [error |-> "", value |-> TRUE]
    ELSE IF t2_rows # <<>> THEN [error |-> "", value |-> TRUE]
    ELSE IF d_rows # <<>> THEN [error |-> "", value |-> TRUE]
    ELSE ColumnsDiffer(with_columns)

(* ------------------------- the loops of jsonify ------------------------ *)

\* lines 29-31: diff_rows_jsonified.append(_jsonify_diff(row, key_columns))
RECURSIVE JsonifyDiffRows(_, _, _, _)
JsonifyDiffRows(rows, key_columns, i, acc) ==
    IF i > Len(rows) \/ acc.error # "" THEN acc
    ELSE LET r == _jsonify_diff(rows[i], key_columns)
         IN  JsonifyDiffRows(rows, key_columns, i + 1,
                 IF r.error # "" THEN [acc EXCEPT !.error = r.error]
                 ELSE [acc EXCEPT !.value = Append(@, r.value)])

\* JsonifyExclusiveRows inserting at the front instead of appending
RECURSIVE JsonifyExclusiveRowsPrepending(_, _, _, _)
JsonifyExclusiveRowsPrepending(rows, key_columns, i, acc) ==
    IF i > Len(rows) \/ acc.error # "" THEN acc
    ELSE LET r == _jsonify_exclusive(rows[i], key_columns)
         IN  JsonifyExclusiveRowsPrepending(rows, key_columns, i + 1,
                 IF r.error # "" THEN [acc EXCEPT !.error = r.error]
                 ELSE [acc EXCEPT !.value = <<r.value>> \o @])

\* lines 33-35 and 37-39: ...append(_jsonify_exclusive(row, key_columns))
RECURSIVE JsonifyExclusiveRows(_, _, _, _)
JsonifyExclusiveRows(rows, key_columns, i, acc) ==
    IF i > Len(rows) \/ acc.error # "" THEN acc
    ELSE LET r == _jsonify_exclusive(rows[i], key_columns)
         IN  JsonifyExclusiveRows(rows, key_columns, i + 1,
                 IF r.error # "" THEN [acc EXCEPT !.error = r.error]
                 ELSE [acc EXCEPT !.value = Append(@, r.value)])

(* ------------------------------ inputs -------------------------------- *)

ID == <<"i", "d">>
N_A == <<"n", "_", "a">>
N_B == <<"n", "_", "b">>
IS_DIFF_N == <<"i", "s", "_", "d", "i", "f", "f", "_", "n">>

\* names of compared columns: a plain one, and ones whose text contains the
\* encodings "_a", "_b" and "is_diff_" of the wide schema
ColumnNames == {ID, N_A, N_B, IS_DIFF_N}

\* the value the engine reports for column j on side 1 (table1) or 2 (table2);
\* format.py never inspects a data value
DataValue(j, side) == 10 * j + side

\* the value beyond the schema in a row that is too long
EXTRA == DataValue(9, 9)

\* the wide schema of the engine for the compared columns cols, of which the
\* columns in flagged have an is_diff_ field
SchemaOf(cols, flagged) ==
    LET fl == SelectSeq(cols, LAMBDA c : c \in flagged)
    IN  <<IS_EXCLUSIVE_A, IS_EXCLUSIVE_B>>
        \o [i \in 1..Len(fl) |-> IS_DIFF \o fl[i]]
        \o [i \in 1..(2 * Len(cols)) |->
               cols[(i + 1) \div 2] \o (IF i % 2 = 1 THEN SUFFIX_A ELSE SUFFIX_B)]

\* rows of the right length: every flag is 0 or 1, every data cell holds
\* its DataValue
FullRows(cols, flagged) ==
    LET nf == 2 + Cardinality(flagged)
    IN  { f \o [i \in 1..(2 * Len(cols)) |-> DataValue((i + 1) \div 2, 2 - (i % 2))] :
          f \in [1..nf -> {0, 1}] }

\* the rows the engine may deliver: of the schema's length, one value short,
\* one value long, or cut after the first value
RowsOf(cols, flagged) ==
    LET L == 2 + Cardinality(flagged) + 2 * Len(cols)
    IN  { SubSeq(full \o <<EXTRA>>, 1, n) :
          full \in FullRows(cols, flagged), n \in {1, L - 1, L, L + 1} }

SeqsUpTo(S, n) == UNION { [1..k -> S] : k \in 0..n }

\* with_columns: None, or a dict with any of the keys added, removed, changed
ColumnDiffs ==
    UNION { [K -> {<<>>, <<ID>>}] : K \in SUBSET {"added", "removed", "changed"} }

FULL_STATS ==
    [rows_A |-> 2, rows_B |-> 2, exclusive_A |-> 1, exclusive_B |-> 1, updated |-> 1,
     unchanged |-> 0, stats |-> [diff_counts |-> 1]]

\* what diff.get_stats_dict() may return: every key, or one key missing
StatsDicts == {FULL_STATS, [k \in (DOMAIN FULL_STATS) \ {"updated"} |-> FULL_STATS[k]]}

DBT_MODEL == "model"
TABLE1_PATH == <<"table1">>
TABLE2_PATH == <<"table2">>

(* ------------------------------- state -------------------------------- *)

VARIABLES
    compared,                     \* the columns the engine compared
    schema, diff, key_columns,    \* diff_info: diff_schema names, diff, key_columns
    with_summary, with_columns,   \* the arguments of jsonify
    pc,                           \* the statement jsonify has reached
    t1_exclusive_rows, t2_exclusive_rows, diff_rows,
    diff_rows_jsonified, t1_exclusive_rows_jsonified, t2_exclusive_rows_jsonified,
    summary, columns,
    returned,                     \* None, or the document jsonify returned
    error                         \* "", or the exception jsonify raised

inputs == <<compared, schema, diff, key_columns, with_summary, with_columns>>
buckets == <<t1_exclusive_rows, t2_exclusive_rows, diff_rows>>
jsonified == <<diff_rows_jsonified, t1_exclusive_rows_jsonified, t2_exclusive_rows_jsonified>>
vars == <<inputs, pc, buckets, jsonified, summary, columns, returned, error>>

\* lines 21-23, 29, 33, 37, 41, 45: the locals before the first call
Locals ==
    /\ pc = "group"
    /\ t1_exclusive_rows = <<>> /\ t2_exclusive_rows = <<>> /\ diff_rows = <<>>
    /\ diff_rows_jsonified = <<>>
    /\ t1_exclusive_rows_jsonified = <<>>
    /\ t2_exclusive_rows_jsonified = <<>>
    /\ summary = <<>> /\ columns = <<>>
    /\ returned = <<>> /\ error = ""

\* the set of elements of a sequence
Range(seq) == { seq[i] : i \in 1..Len(seq) }

\* the comparisons explored: the compared columns and the key columns
Comparisons ==
    UNION { { [cols |-> <<c>>, keys |-> k] : k \in {<<>>, <<c>>} } : c \in ColumnNames }

\* the engine emits an is_diff_ field for every compared column, or for
\* every compared column that is not a key column
FlaggedSets(cmp) == { Range(cmp.cols), Range(cmp.cols) \ Range(cmp.keys) }

\* jsonify(diff, dbt_model): any rows, the optional arguments at their defaults
Init ==
    /\ \E cmp \in Comparisons : \E flagged \in FlaggedSets(cmp) :
          /\ compared = cmp.cols
          /\ key_columns = cmp.keys
          /\ schema = SchemaOf(cmp.cols, flagged)
          /\ diff \in SeqsUpTo(RowsOf(cmp.cols, flagged), MaxRows)
    /\ with_summary = FALSE
    /\ with_columns = <<>>
    /\ Locals

\* jsonify(diff, dbt_model, with_summary, with_columns): rows of the schema's
\* length over the key column id, any optional arguments
InitOptions ==
    /\ compared = <<ID>>
    /\ key_columns = <<ID>>
    /\ schema = SchemaOf(<<ID>>, {ID})
    /\ diff \in SeqsUpTo(FullRows(<<ID>>, {ID}), MaxRows)
    /\ with_summary \in BOOLEAN
    /\ with_columns \in {<<>>} \cup { <<m>> : m \in ColumnDiffs }
    /\ Locals

\* a raised exception ends jsonify: pc stays at the statement that raised it
Raise(e) ==
    /\ error' = e
    /\ UNCHANGED pc

\* line 26
GroupRows ==
    /\ pc = "group" /\ error = ""
    /\ LET r == _group_rows(diff, schema)
       IN  IF r.error # ""
           THEN Raise(r.error) /\ UNCHANGED buckets
           ELSE /\ t1_exclusive_rows' = r.t1_exclusive_rows
                /\ t2_exclusive_rows' = r.t2_exclusive_rows
                /\ diff_rows' = r.diff_rows
                /\ pc' = "reshape"
                /\ UNCHANGED error
    /\ UNCHANGED <<inputs, jsonified, summary, columns, returned>>

\* lines 29-39
ReshapeRows ==
    /\ pc = "reshape" /\ error = ""
    /\ LET none == [error |-> "", value |-> <<>>]
           d == JsonifyDiffRows(diff_rows, key_columns, 1, none)
           e1 == JsonifyExclusiveRows(t1_exclusive_rows, key_columns, 1, none)
           e2 == JsonifyExclusiveRows(t2_exclusive_rows, key_columns, 1, none)
           failed == IF d.error # "" THEN d.error
                     ELSE IF e1.error # "" THEN e1.error ELSE e2.error
       IN  IF failed # ""
           THEN Raise(failed) /\ UNCHANGED jsonified
           ELSE /\ diff_rows_jsonified' = d.value
                /\ t1_exclusive_rows_jsonified' = e1.value
                /\ t2_exclusive_rows_jsonified' = e2.value
                /\ pc' = "project"
                /\ UNCHANGED error
    /\ UNCHANGED <<inputs, buckets, summary, columns, returned>>

\* lines 41-47
Project ==
    /\ pc = "project" /\ error = ""
    /\ \E stats_dict \in StatsDicts :
          LET s == IF with_summary THEN _jsonify_diff_summary(stats_dict)
                   ELSE [error |-> "", value |-> <<>>]
          IN  IF s.error # ""
              THEN Raise(s.error) /\ UNCHANGED <<summary, columns>>
              ELSE /\ summary' = IF with_summary THEN <<s.value>> ELSE <<>>
                   /\ columns' = IF DictTruthy(with_columns)
                                 THEN <<_jsonify_columns_diff(with_columns[1])>>
                                 ELSE <<>>
                   /\ pc' = "assemble"
                   /\ UNCHANGED error
    /\ UNCHANGED <<inputs, buckets, jsonified, returned>>

\* lines 59-73
JsonDiff(status) ==
    [status |-> status,
     model |-> DBT_MODEL,
     table1 |-> TABLE1_PATH,
     table2 |-> TABLE2_PATH,
     rows |-> [exclusive |-> [table1 |-> t1_exclusive_rows_jsonified,
                              table2 |-> t2_exclusive_rows_jsonified],
               diff |-> diff_rows_jsonified],
     summary |-> summary,
     columns |-> columns,
     version |-> "1.0.0"]

\* lines 49-73
Assemble ==
    /\ pc = "assemble" /\ error = ""
    /\ LET r == is_different(t1_exclusive_rows, t2_exclusive_rows, diff_rows, with_columns)
       IN  IF r.error # ""
           THEN Raise(r.error) /\ UNCHANGED returned
           ELSE /\ returned' = <<JsonDiff(IF r.value THEN "different" ELSE "identical")>>
                /\ pc' = "done"
                /\ UNCHANGED error
    /\ UNCHANGED <<inputs, buckets, jsonified, summary, columns>>

Next == GroupRows \/ ReshapeRows \/ Project \/ Assemble

Spec == Init /\ [][Next]_vars

SpecOptions == InitOptions /\ [][Next]_vars

(* ======================== properties of jsonify ======================== *)

\* the document jsonify returned; only used where pc = "done"
Doc == returned[1]

\* the rows have been reshaped without an exception
Reshaped == pc \in {"project", "assemble", "done"}

\* the i-th input row under the schema's names (zip pairs by position and
\* stops at the shorter sequence)
Zipped(i) ==
    LET n == IF Len(diff[i]) < Len(schema) THEN Len(diff[i]) ELSE Len(schema)
    IN  [j \in 1..n |-> <<schema[j], diff[i][j]>>]

\* the value a zipped row holds under a field name it carries
Field(row, name) == (CHOOSE p \in Range(row) : p[1] = name)[2]

Carries(row, name) == \E p \in Range(row) : p[1] = name

\* every input row carries both exclusivity flags
FlagsPresent ==
    \A i \in 1..Len(diff) :
        Carries(Zipped(i), IS_EXCLUSIVE_A) /\ Carries(Zipped(i), IS_EXCLUSIVE_B)

\* every input row has the schema's length
WellFormed == \A i \in 1..Len(diff) : Len(diff[i]) = Len(schema)

\* the bucket the classification rule gives the i-th input row:
\* 1 table1-exclusive, 2 table2-exclusive, 3 matched
Bucket(i) ==
    IF Field(Zipped(i), IS_EXCLUSIVE_A) # 0 THEN 1
    ELSE IF Field(Zipped(i), IS_EXCLUSIVE_B) # 0 THEN 2
    ELSE 3

\* the positions of the input rows of bucket k, in input order
IndicesOf(k) == SelectSeq([i \in 1..Len(diff) |-> i], LAMBDA i : Bucket(i) = k)

BucketRows(k) ==
    IF k = 1 THEN t1_exclusive_rows
    ELSE IF k = 2 THEN t2_exclusive_rows
    ELSE diff_rows

\* C1: when _group_rows has returned (jsonify is at line 29), the three
\* bucket sizes sum to the input size, every input row is in the bucket the
\* rule gives it (table1-exclusive if is_exclusive_a is truthy, else table2-
\* exclusive if is_exclusive_b is truthy, else matched) and in no other
\* bucket; so a row with both flags true is table1-exclusive.
C1_Partition ==
    (pc = "reshape" /\ FlagsPresent) =>
        /\ Len(t1_exclusive_rows) + Len(t2_exclusive_rows) + Len(diff_rows) = Len(diff)
        /\ \A k \in 1..3 :
               Len(BucketRows(k)) = Cardinality({ i \in 1..Len(diff) : Bucket(i) = k })
        /\ \A i \in 1..Len(diff) :
               LET row == Zipped(i)
                   own == Bucket(i)
               IN  \A k \in 1..3 : (row \in Range(BucketRows(k))) <=> (k = own)

\* a row with both flags true has gone to table1-exclusive beside a matched row
C1_Witness ==
    /\ pc = "reshape"
    /\ Len(t1_exclusive_rows) = 1 /\ Len(diff_rows) = 1
    /\ \E i \in 1..Len(diff) :
          /\ Len(diff[i]) = Len(schema)
          /\ diff[i][1] = 1 /\ diff[i][2] = 1
          /\ t1_exclusive_rows[1] = Zipped(i)

\* C10: in the returned document each of rows.exclusive.table1,
\* rows.exclusive.table2 and rows.diff has one entry per row of its bucket,
\* the i-th entry being the reshaping of the i-th row that the rule puts in
\* that bucket, counted in input order.
C10_OrderKept ==
    pc = "done" =>
        LET i1 == IndicesOf(1)
            i2 == IndicesOf(2)
            i3 == IndicesOf(3)
        IN  /\ Doc.rows.exclusive.table1 =
                  [j \in 1..Len(i1) |-> _jsonify_exclusive(Zipped(i1[j]), key_columns).value]
            /\ Doc.rows.exclusive.table2 =
                  [j \in 1..Len(i2) |-> _jsonify_exclusive(Zipped(i2[j]), key_columns).value]
            /\ Doc.rows.diff =
                  [j \in 1..Len(i3) |-> _jsonify_diff(Zipped(i3[j]), key_columns).value]

\* a document whose table2-exclusive list holds two different entries
C10_Witness ==
    /\ pc = "done"
    /\ Len(Doc.rows.exclusive.table2) = 2
    /\ Doc.rows.exclusive.table2[1] # Doc.rows.exclusive.table2[2]

\* some added, removed or changed sequence of a supplied column-diff mapping
\* is non-empty
ColumnChange ==
    /\ with_columns # <<>>
    /\ \E k \in DOMAIN with_columns[1] : with_columns[1][k] # <<>>

\* C2: whenever jsonify returns, the status is "different" if and only if a
\* bucket is non-empty or a column-diff mapping was supplied with a non-empty
\* added, removed or changed sequence; otherwise it is "identical".
C2_Status ==
    pc = "done" =>
        Doc.status =
            IF \/ t1_exclusive_rows # <<>>
               \/ t2_exclusive_rows # <<>>
               \/ diff_rows # <<>>
               \/ ColumnChange
            THEN "different" ELSE "identical"

\* only matched rows, no column change, and the status is "different"
C2_Witness ==
    /\ pc = "done"
    /\ t1_exclusive_rows = <<>> /\ t2_exclusive_rows = <<>> /\ diff_rows # <<>>
    /\ ~ColumnChange
    /\ with_columns # <<>>
    /\ Doc.status = "different"

\* the values of a row's data fields on one side: the fields named
\* <column><suffix> for a compared column
SideValues(row, suffix) ==
    { p[2] : p \in { q \in Range(row) : \E c \in Range(compared) : q[1] = c \o suffix } }

\* the values an exclusive reshaped mapping holds
EntryValues(entry) == { entry[k].value : k \in DOMAIN entry }

\* C3: for rows of the schema's length, the reshaped mapping of every row of
\* the table1-exclusive bucket holds only values of the row's <col>_a
\* fields, and that of every row of the table2-exclusive bucket only values
\* of its <col>_b fields; this includes a row whose two exclusivity flags
\* are both true.
C3_OwnSideOnly ==
    (WellFormed /\ Reshaped) =>
        /\ \A j \in 1..Len(t1_exclusive_rows) :
               EntryValues(t1_exclusive_rows_jsonified[j])
                   \subseteq SideValues(t1_exclusive_rows[j], SUFFIX_A)
        /\ \A j \in 1..Len(t2_exclusive_rows) :
               EntryValues(t2_exclusive_rows_jsonified[j])
                   \subseteq SideValues(t2_exclusive_rows[j], SUFFIX_B)

\* every compared column has its is_diff_ field in the schema
FullyFlagged == \A c \in Range(compared) : In(IS_DIFF \o c, schema)

\* the per-column matched values the wide row encodes
MatchedValues(row) ==
    [c \in Range(compared) |->
        [table1 |-> Field(row, c \o SUFFIX_A),
         table2 |-> Field(row, c \o SUFFIX_B),
         isDiff |-> Field(row, IS_DIFF \o c) # 0,
         isPK |-> In(c, key_columns)]]

\* C4: when the schema carries <c>_a, <c>_b and is_diff_<c> for every
\* compared column c and every row has the schema's length, reshaping the
\* matched rows raises nothing and the mapping of each matched row has
\* exactly the compared columns as keys, each with table1, table2, isDiff and
\* isPK of that column, whatever the column is named.
C4_ReshapeComplete ==
    (FullyFlagged /\ WellFormed) =>
        /\ ~(pc = "reshape" /\ error # "")
        /\ Reshaped =>
               \A j \in 1..Len(diff_rows) :
                   diff_rows_jsonified[j] = MatchedValues(diff_rows[j])

\* a column name that contains none of the encodings of the wide schema
Plain(c) ==
    /\ replace(c, SUFFIX_A) = c
    /\ replace(c, SUFFIX_B) = c
    /\ ~startswith(c, IS_DIFF)

\* C5: when rows of the schema's length carry <c>_a and <c>_b but no
\* is_diff_<c> for a column c (here with a name free of the encodings),
\* reshaping the matched rows raises nothing and the entry for c has isDiff
\* false together with its table1, table2 and isPK.
C5_AbsentFlagIsFalse ==
    (WellFormed /\ \A c \in Range(compared) : Plain(c) /\ ~In(IS_DIFF \o c, schema)) =>
        /\ ~(pc = "reshape" /\ error # "")
        /\ Reshaped =>
               \A j \in 1..Len(diff_rows) : \A c \in Range(compared) :
                   /\ c \in DOMAIN diff_rows_jsonified[j]
                   /\ diff_rows_jsonified[j][c] =
                          [table1 |-> Field(diff_rows[j], c \o SUFFIX_A),
                           table2 |-> Field(diff_rows[j], c \o SUFFIX_B),
                           isDiff |-> FALSE,
                           isPK |-> In(c, key_columns)]

\* the entries of the columns section, with an absent key as no entries
Listed(key) == IF key \in DOMAIN with_columns[1] THEN with_columns[1][key] ELSE <<>>

\* C6: when a column-diff mapping is supplied with any subset of the keys
\* added, removed and changed, the assembly of lines 45-58 raises nothing
\* for any rows, and a returned document has each missing key as an empty
\* sequence in its columns section (where it has one) and counts it as
\* empty in the status.
C6_MissingKeysAreEmpty ==
    with_columns # <<>> =>
        /\ ~(pc = "assemble" /\ error # "")
        /\ pc = "done" =>
               /\ Doc.columns # <<>> =>
                      Doc.columns =
                          <<[exclusive |-> [table1 |-> Listed("removed"),
                                            table2 |-> Listed("added")],
                             typeChanged |-> Listed("changed")]>>
               /\ (Doc.status = "different") <=>
                      \/ diff # <<>>
                      \/ \E key \in {"added", "removed", "changed"} : Listed(key) # <<>>

\* C7: jsonify never returns a document when some diff row's number of
\* values differs from the schema length.
C7_MalformedRowFails ==
    (\E i \in 1..Len(diff) : Len(diff[i]) # Len(schema)) => pc # "done"

\* the compared column a data value belongs to (the inverse of DataValue)
ColumnOf(value) == compared[value \div 10]

\* no input row has both exclusivity flags true
AtMostOneFlag == \A i \in 1..Len(diff) : diff[i][1] = 0 \/ diff[i][2] = 0

\* C8: for rows of the schema's length with at most one exclusivity flag
\* true, in every reshaped per-column value, of exclusive and of matched
\* rows, isPK is true if and only if the compared column whose value it
\* holds is one of the key columns, whatever the column is named.
C8_IsPK ==
    (WellFormed /\ AtMostOneFlag /\ Reshaped) =>
        /\ \A j \in 1..Len(t1_exclusive_rows_jsonified) :
               \A k \in DOMAIN t1_exclusive_rows_jsonified[j] :
                   LET v == t1_exclusive_rows_jsonified[j][k]
                   IN  v.isPK <=> In(ColumnOf(v.value), key_columns)
        /\ \A j \in 1..Len(t2_exclusive_rows_jsonified) :
               \A k \in DOMAIN t2_exclusive_rows_jsonified[j] :
                   LET v == t2_exclusive_rows_jsonified[j][k]
                   IN  v.isPK <=> In(ColumnOf(v.value), key_columns)
        /\ \A j \in 1..Len(diff_rows_jsonified) :
               \A k \in DOMAIN diff_rows_jsonified[j] :
                   LET v == diff_rows_jsonified[j][k]
                   IN  v.isPK <=> In(ColumnOf(v.table1), key_columns)

\* C9: omitting the optional arguments raises nothing; a returned document
\* has summary null exactly when no stats summary was requested and columns
\* null exactly when no column-diff mapping was supplied; no rows and both
\* omitted give "identical", three empty row lists, summary and columns null.
C9_OnlyOmittedSectionsNull ==
    /\ (~with_summary /\ with_columns = <<>>) => error = ""
    /\ pc = "done" =>
           /\ (Doc.summary = <<>>) <=> ~with_summary
           /\ (Doc.columns = <<>>) <=> (with_columns = <<>>)
           /\ (diff = <<>> /\ ~with_summary /\ with_columns = <<>>) =>
                  /\ Doc.status = "identical"
                  /\ Doc.rows = [exclusive |-> [table1 |-> <<>>, table2 |-> <<>>],
                                 diff |-> <<>>]
                  /\ Doc.summary = <<>> /\ Doc.columns = <<>>

====
